---- MODULE Spec2Model ----
(***************************************************************************)
(* A model of aws-cloudwatch-chart.js: the metric series and their data    *)
(* point lists, the fan-out/fan-in of getChart over getStatistics, the     *)
(* bucket walk and reduction of getURL, and the two-character encoder      *)
(* extendedEncode.                                                         *)
(*                                                                         *)
(* Numbers.  JavaScript numbers are modelled as exact rationals            *)
(* [n |-> numerator, d |-> denominator] with d > 0; data point values and  *)
(* timestamps (milliseconds) are integers.  Math.floor and Math.ceil are   *)
(* computed on the exact quotient.  Division by zero follows IEEE-754:     *)
(* x/0 is +Infinity, -Infinity or NaN by the sign of x.                    *)
(***************************************************************************)
EXTENDS Integers, Sequences, FiniteSets, TLC

(* ------------------------------ bounds --------------------------------- *)

\* Largest chartSamples the configuration is drawn from.
MaxSamples == 3
\* Most data points held by all metrics together in the getURL specification.
MaxPoints == 3
\* Most getChart calls issued.
MaxCharts == 2
\* Most iterations of the bucket walk the model follows before it stops
\* following a walk that does not advance.
MaxLabels == 7
\* Longest value sequence handed to extendedEncode on its own.
MaxLen == 2
\* Largest maxVal handed to extendedEncode on its own.
MaxMaxVal == 3

(* ---------------------------- arithmetic ------------------------------- *)

\* Math.floor(a / b) for integers a, b with b > 0.
Floor(a, b) == a \div b

\* Math.ceil(a / b) for integers a, b with b > 0.
Ceil(a, b) == -((-a) \div b)

Rat(n, d) == [n |-> n, d |-> d]

\* x < y on rationals (denominators positive).
RatLess(x, y) == x.n * y.d < y.n * x.d

RatEq(x, y) == x.n * y.d = y.n * x.d

(* ------------------------------ encoder -------------------------------- *)

EXTENDED_MAP ==
    << "A","B","C","D","E","F","G","H","I","J","K","L","M",
       "N","O","P","Q","R","S","T","U","V","W","X","Y","Z",
       "a","b","c","d","e","f","g","h","i","j","k","l","m",
       "n","o","p","q","r","s","t","u","v","w","x","y","z",
       "0","1","2","3","4","5","6","7","8","9","-","." >>

EXTENDED_MAP_LENGTH == Len(EXTENDED_MAP)

\* String.prototype.charAt on EXTENDED_MAP: positions count from 0.
charAt(pos) == EXTENDED_MAP[pos + 1]

\* scaledVal with the value scaled to one digit, EXTENDED_MAP_LENGTH, only.
scaledValOneDigit(numericVal, maxVal) ==
    IF maxVal = 0
    THEN [kind |-> IF numericVal.n = 0 THEN "NaN"
                   ELSE IF numericVal.n > 0 THEN "Infinity" ELSE "-Infinity",
          v |-> 0]
    ELSE [kind |-> "finite",
          v |-> Floor(EXTENDED_MAP_LENGTH * numericVal.n, numericVal.d * maxVal)]

\* Math.floor(EXTENDED_MAP_LENGTH * EXTENDED_MAP_LENGTH * numericVal / maxVal)
\* as [kind, v]: kind is "finite" with the integer v, or, when maxVal is 0,
\* "NaN" (0/0), "Infinity" or "-Infinity" (x/0), which Math.floor keeps.
scaledVal(numericVal, maxVal) ==
    IF maxVal = 0
    THEN [kind |-> IF numericVal.n = 0 THEN "NaN"
                   ELSE IF numericVal.n > 0 THEN "Infinity" ELSE "-Infinity",
          v |-> 0]
    ELSE [kind |-> "finite",
          v |-> Floor(EXTENDED_MAP_LENGTH * EXTENDED_MAP_LENGTH * numericVal.n,
                      numericVal.d * maxVal)]

\* encodeOne with the two digits in the wrong order.
encodeOneSwapped(numericVal, maxVal) ==
    LET sv == scaledVal(numericVal, maxVal) IN
    IF sv.kind = "Infinity" THEN << ".", "." >>
    ELSE IF sv.kind = "-Infinity" THEN << "_", "_" >>
    ELSE IF sv.kind = "NaN" THEN << charAt(0), charAt(0) >>
    ELSE IF sv.v > (EXTENDED_MAP_LENGTH * EXTENDED_MAP_LENGTH) - 1 THEN << ".", "." >>
    ELSE IF sv.v < 0 THEN << "_", "_" >>
    ELSE LET quotient == Floor(sv.v, EXTENDED_MAP_LENGTH)
             remainder == sv.v - EXTENDED_MAP_LENGTH * quotient
         IN  << charAt(remainder), charAt(quotient) >>

\* The loop body of extendedEncode: the two characters added for one value.
\* Every comparison with NaN is false, so NaN reaches the last branch, where
\* charAt(NaN) is charAt(0).
encodeOne(numericVal, maxVal) ==
    LET sv == scaledVal(numericVal, maxVal) IN
    IF sv.kind = "Infinity" THEN << ".", "." >>
    ELSE IF sv.kind = "-Infinity" THEN << "_", "_" >>
    ELSE IF sv.kind = "NaN" THEN << charAt(0), charAt(0) >>
    ELSE IF sv.v > (EXTENDED_MAP_LENGTH * EXTENDED_MAP_LENGTH) - 1 THEN << ".", "." >>
    ELSE IF sv.v < 0 THEN << "_", "_" >>
    ELSE LET quotient == Floor(sv.v, EXTENDED_MAP_LENGTH)
             remainder == sv.v - EXTENDED_MAP_LENGTH * quotient
         IN  << charAt(quotient), charAt(remainder) >>

RECURSIVE extendedEncodeFrom(_, _, _)
extendedEncodeFrom(arrVals, maxVal, k) ==
    IF k > Len(arrVals) THEN << >>
    ELSE encodeOne(arrVals[k], maxVal) \o extendedEncodeFrom(arrVals, maxVal, k + 1)

\* extendedEncode(arrVals, maxVal): chartData as a sequence of characters.
extendedEncode(arrVals, maxVal) == extendedEncodeFrom(arrVals, maxVal, 1)

(* --------------------------- configuration ----------------------------- *)

\* The configured metrics, in declaration order (this.metrics).
Metrics == 1..2

\* The statistics the module supports.
Statistics == {"Maximum", "Average"}

\* Timestamps (milliseconds) and values a data point may carry.
Times == {0, 2, 5}
Values == {-1, 2}

\* What getMetricStatistics answers for Statistics: [stat]: data points with
\* a Timestamp and the one requested statistic.
DatapointsOf(stat) ==
    IF stat = "Maximum"
    THEN { [Timestamp |-> t, Maximum |-> v] : t \in Times, v \in Values }
    ELSE { [Timestamp |-> t, Average |-> v] : t \in Times, v \in Values }

\* Sequences over S of length at most n.
SeqUpTo(S, n) == UNION { [1..k -> S] : k \in 0..n }

VARIABLES
    chartSamples,   \* this.config.chartSamples
    statistic,      \* metric -> its statistic
    datapoints,     \* metric -> its datapoints array
    nCalls,         \* getChart calls issued so far
    fetch,          \* call -> metric -> the state of that getStatistics promise
    chartPromise,   \* call -> the state of the promise getChart returned
    pc,             \* where getURL stands
    endTime,        \* getURL's endTime
    diff,           \* getURL's diff
    i,              \* getURL's walk position (the startTime object)
    prevTime,       \* getURL's prevTime
    timeLabels,     \* getURL's timeLabels
    datasets,       \* getURL's datasets
    absMaxValue,    \* getURL's absMaxValue
    topEdge,        \* getURL's topEdge
    url,            \* what getURL returned or threw
    encArrVals,     \* encoder on its own: the arrVals handed to extendedEncode
    encMaxVal,      \* encoder on its own: the maxVal handed to extendedEncode
    encChartData,   \* encoder on its own: the chartData returned
    encPc           \* encoder on its own: "ready" before the call, "returned" after

configVars == << chartSamples, statistic >>
fetchVars == << nCalls, fetch, chartPromise >>
urlVars == << pc, endTime, diff, i, prevTime, timeLabels,
              datasets, absMaxValue, topEdge, url >>
encVars == << encArrVals, encMaxVal, encChartData, encPc >>
vars == << configVars, datapoints, fetchVars, urlVars, encVars >>

(* ------------------------------- getURL -------------------------------- *)

\* A Date or the initial false of startTime, endTime and prevTime: << >> is
\* false, << t >> a Date at t milliseconds.
Num(x) == IF x = << >> THEN 0 ELSE x[1]

RECURSIVE timestampsFrom(_, _)
\* The Timestamps in the order the two nested loops visit them.
timestampsFrom(dps, km) ==
    IF km \notin Metrics THEN << >>
    ELSE [ks \in 1..Len(dps[km]) |-> dps[km][ks].Timestamp]
         \o timestampsFrom(dps, km + 1)

RECURSIVE scanTimes(_, _, _)
\* The loop that finds startTime and endTime, from the k-th Timestamp on.
scanTimes(ts, k, st) ==
    IF k > Len(ts) THEN st
    ELSE LET d  == ts[k]
             e1 == IF st.endTime = << >> THEN << d >> ELSE st.endTime
             s1 == IF st.startTime = << >> THEN << d >> ELSE st.startTime
             e2 == IF d > e1[1] THEN << d >> ELSE e1
             s2 == IF d < s1[1] THEN << d >> ELSE s1
         IN  scanTimes(ts, k + 1, [startTime |-> s2, endTime |-> e2])

\* Date.prototype.setTime(i.getTime() + diff): the sum is clipped to whole
\* milliseconds (TimeClip truncates; timestamps are not negative).
setTime(t, step) == Floor(t * step.d + step.n, step.d)

\* ("0" + getUTCHours()).slice(-2) + ':' + ("0" + getUTCMinutes()).slice(-2),
\* as the pair of the two numbers.
labelText(t) == << (t \div 3600000) % 24, (t \div 60000) % 60 >>

\* d > timeLabels[ktl].start && d <= timeLabels[ktl].end
selected(p, tl) == p.Timestamp > tl.start /\ p.Timestamp <= tl.end

RECURSIVE maxInPeriodFrom(_, _, _, _)
\* maxInPeriod after the points from the ks-th on.
maxInPeriodFrom(pts, tl, ks, maxInPeriod) ==
    IF ks > Len(pts) THEN maxInPeriod
    ELSE maxInPeriodFrom(pts, tl, ks + 1,
            IF /\ selected(pts[ks], tl)
               /\ "Maximum" \in DOMAIN pts[ks]
               /\ maxInPeriod < pts[ks].Maximum
            THEN pts[ks].Maximum ELSE maxInPeriod)

RECURSIVE totalInPeriodFrom(_, _, _, _)
\* totalInPeriod and totalInPeriodCount after the points from the ks-th on.
totalInPeriodFrom(pts, tl, ks, acc) ==
    IF ks > Len(pts) THEN acc
    ELSE totalInPeriodFrom(pts, tl, ks + 1,
            IF selected(pts[ks], tl) /\ "Average" \in DOMAIN pts[ks]
            THEN [total |-> acc.total + pts[ks].Average, count |-> acc.count + 1]
            ELSE acc)

\* averageInPeriod: the total, divided by the count when there is one.
averageInPeriod(pts, tl) ==
    LET acc == totalInPeriodFrom(pts, tl, 1, [total |-> 0, count |-> 0])
    IN  IF acc.count > 0 THEN Rat(acc.total, acc.count) ELSE Rat(acc.total, 1)

\* toPush with the test on the statistic the wrong way round.
toPushSwapped(stat, pts, tl) ==
    IF stat = "Maximum" THEN averageInPeriod(pts, tl)
    ELSE Rat(maxInPeriodFrom(pts, tl, 1, 0), 1)

\* The value pushed for one metric and one bucket.
toPush(stat, pts, tl) ==
    IF stat = "Maximum" THEN Rat(maxInPeriodFrom(pts, tl, 1, 0), 1)
    ELSE averageInPeriod(pts, tl)

\* datasets: for each metric, the value of each bucket.
datasetsOf(stats, dps, tls) ==
    [km \in Metrics |-> [ktl \in 1..Len(tls) |-> toPush(stats[km], dps[km], tls[ktl])]]

RECURSIVE flatten(_, _)
\* The values of datasets in the order they are pushed.
flatten(dss, km) ==
    IF km \notin Metrics THEN << >> ELSE dss[km] \o flatten(dss, km + 1)

RECURSIVE absMaxFrom(_, _, _)
\* absMaxValue after the values from the k-th on.
absMaxFrom(vals, k, cur) ==
    IF k > Len(vals) THEN cur
    ELSE absMaxFrom(vals, k + 1, IF RatLess(cur, vals[k]) THEN vals[k] ELSE cur)

\* topEdgeOf without the headroom of 20%.
topEdgeNoHeadroom(a) == Ceil(a.n, a.d)

\* Math.ceil(absMaxValue * 1.2)
topEdgeOf(a) == Ceil(a.n * 6, a.d * 5)

(* ------------------------------ actions -------------------------------- *)

\* The locals of getURL while it is not running.
urlIdle ==
    /\ pc = "idle"
    /\ endTime = << >>
    /\ diff = Rat(0, 1)
    /\ i = << >>
    /\ prevTime = << >>
    /\ timeLabels = << >>
    /\ datasets = << >>
    /\ absMaxValue = Rat(0, 1)
    /\ topEdge = 0
    /\ url = [kind |-> "none"]

\* getURL is entered: startTime, endTime and diff are computed; the walk
\* starts at startTime.
getURLStart ==
    /\ pc = "idle"
    /\ LET st == scanTimes(timestampsFrom(datapoints, 1), 1,
                           [startTime |-> << >>, endTime |-> << >>])
       IN  /\ i' = st.startTime
           /\ endTime' = st.endTime
           /\ diff' = Rat(Num(st.endTime) - Num(st.startTime), chartSamples)
    /\ pc' = "walk"
    /\ UNCHANGED << prevTime, timeLabels, datasets, absMaxValue, topEdge, url >>
    /\ UNCHANGED << configVars, datapoints, fetchVars, encVars >>

\* One iteration of the walk: the condition holds, the body runs, i advances.
\* With no data point i is false and i.getTime() throws a TypeError.
walkStep ==
    /\ pc = "walk"
    /\ Num(i) <= Num(endTime)
    /\ Len(timeLabels) < MaxLabels
    /\ IF i = << >>
       THEN /\ pc' = "threw"
            /\ url' = [kind |-> "TypeError"]
            /\ UNCHANGED << i, prevTime, timeLabels >>
       ELSE /\ timeLabels' =
                 IF prevTime # << >>
                 THEN Append(timeLabels, [text |-> labelText(i[1]),
                                          start |-> prevTime[1], end |-> i[1]])
                 ELSE timeLabels
            /\ prevTime' = i
            /\ i' = << setTime(i[1], diff) >>
            /\ UNCHANGED << pc, url >>
    /\ UNCHANGED << endTime, diff, datasets, absMaxValue, topEdge >>
    /\ UNCHANGED << configVars, datapoints, fetchVars, encVars >>

\* The walk is over: the buckets are reduced, the values encoded and the URL
\* put together.
getURLFinish ==
    /\ pc = "walk"
    /\ ~(Num(i) <= Num(endTime))
    /\ LET dss == datasetsOf(statistic, datapoints, timeLabels)
           amv == absMaxFrom(flatten(dss, 1), 1, Rat(0, 1))
           top == topEdgeOf(amv)
       IN  /\ datasets' = dss
           /\ absMaxValue' = amv
           /\ topEdge' = top
           /\ url' = [kind |-> "url",
                      chxl |-> [k \in 1..Len(timeLabels) |-> timeLabels[k].text],
                      chxr |-> top,
                      chd  |-> [km \in Metrics |-> extendedEncode(dss[km], top)]]
    /\ pc' = "done"
    /\ UNCHANGED << endTime, diff, i, prevTime, timeLabels >>
    /\ UNCHANGED << configVars, datapoints, fetchVars, encVars >>

\* getURL has returned or thrown, and what called it goes on: save and get hand
\* the URL to the HTTP collaborator, which touches nothing modelled here.
getURLReturn ==
    /\ pc \in {"done", "threw"}
    /\ pc' = "idle"
    /\ endTime' = << >>
    /\ diff' = Rat(0, 1)
    /\ i' = << >>
    /\ prevTime' = << >>
    /\ timeLabels' = << >>
    /\ datasets' = << >>
    /\ absMaxValue' = Rat(0, 1)
    /\ topEdge' = 0
    /\ url' = [kind |-> "none"]
    /\ UNCHANGED << configVars, datapoints, fetchVars, encVars >>

NextURL ==
    \/ getURLStart
    \/ walkStep
    \/ getURLFinish
    \/ getURLReturn

(* ------------------------ getChart and the fetches --------------------- *)

\* The state of the fetches while getChart was never called.
fetchIdle ==
    /\ nCalls = 0
    /\ fetch = [c \in 1..MaxCharts |-> [km \in Metrics |-> [st |-> "none", data |-> << >>]]]
    /\ chartPromise = [c \in 1..MaxCharts |-> "none"]

encIdle ==
    /\ encArrVals = << >>
    /\ encMaxVal = 0
    /\ encChartData = << >>
    /\ encPc = "idle"

\* What one getMetricStatistics call may answer with (data.Datapoints).
Responses(stat) ==
    LET early == CHOOSE p \in DatapointsOf(stat) : p.Timestamp = 0 /\ p[stat] = 2
        late  == CHOOSE p \in DatapointsOf(stat) : p.Timestamp = 2 /\ p[stat] = -1
    IN  { << >>, << late >>, << early, late >> }

\* promiseAll taken for Promise.any: the first fulfilment fulfils.
promiseAny(prev, elems) ==
    IF prev # "pending" THEN prev
    ELSE IF \E km \in Metrics : elems[km].st = "fulfilled" THEN "fulfilled"
    ELSE IF \E km \in Metrics : elems[km].st = "rejected" THEN "rejected"
    ELSE "pending"

\* Promise.all(metricsPromises).then(...): the promise getChart returned,
\* after one more of its elements settled.  A settled promise stays as it is;
\* the first rejection rejects it; it fulfils when every element has.
promiseAll(prev, elems) ==
    IF prev # "pending" THEN prev
    ELSE IF \E km \in Metrics : elems[km].st = "rejected" THEN "rejected"
    ELSE IF \A km \in Metrics : elems[km].st = "fulfilled" THEN "fulfilled"
    ELSE "pending"

\* getChart: one getStatistics call per metric, all in flight.
getChart ==
    /\ pc = "idle"
    /\ nCalls < MaxCharts
    /\ nCalls' = nCalls + 1
    /\ fetch' = [fetch EXCEPT ![nCalls + 1] =
                    [km \in Metrics |-> [st |-> "pending", data |-> << >>]]]
    /\ chartPromise' = [chartPromise EXCEPT ![nCalls + 1] = "pending"]
    /\ UNCHANGED << configVars, datapoints, urlVars, encVars >>

\* getMetricStatistics of call c for metric km answers: the callback pushes
\* every data point onto this.datapoints and its promise fulfils; the
\* reactions of Promise.all run before anything else does.
getStatisticsFulfil(c, km, data) ==
    /\ pc = "idle"
    /\ fetch[c][km].st = "pending"
    /\ datapoints' = [datapoints EXCEPT ![km] = datapoints[km] \o data]
    /\ fetch' = [fetch EXCEPT ![c][km] = [st |-> "fulfilled", data |-> data]]
    /\ chartPromise' = [chartPromise EXCEPT ![c] = promiseAll(chartPromise[c], fetch'[c])]
    /\ UNCHANGED << nCalls, configVars, urlVars, encVars >>

\* getMetricStatistics of call c for metric km fails: nothing is pushed.
getStatisticsReject(c, km) ==
    /\ pc = "idle"
    /\ fetch[c][km].st = "pending"
    /\ fetch' = [fetch EXCEPT ![c][km] = [st |-> "rejected", data |-> << >>]]
    /\ chartPromise' = [chartPromise EXCEPT ![c] = promiseAll(chartPromise[c], fetch'[c])]
    /\ UNCHANGED << nCalls, datapoints, configVars, urlVars, encVars >>

\* save(filename) and get(): each starts with let url = this.getURL().
save == getURLStart

get == getURLStart

Next ==
    \/ getChart
    \/ \E c \in 1..MaxCharts : \E km \in Metrics :
          \E data \in Responses(statistic[km]) : getStatisticsFulfil(c, km, data)
    \/ \E c \in 1..MaxCharts : \E km \in Metrics : getStatisticsReject(c, km)
    \/ save
    \/ get
    \/ NextURL

\* After construction: the configuration is merged, every metric has an empty
\* datapoints array; the first metric asks for the Maximum, the second keeps
\* the default statistic, Average.
Init ==
    /\ chartSamples \in 1..MaxSamples
    /\ statistic = << "Maximum", "Average" >>
    /\ datapoints = [km \in Metrics |-> << >>]
    /\ fetchIdle
    /\ urlIdle
    /\ encIdle

Spec == Init /\ [][Next]_vars

(* ------------------------ specifications of parts ---------------------- *)

\* Every way to share at most n data points among the metrics.
datapointsUpTo(stats, n) ==
    UNION { { << p1, p2 >> : p1 \in [1..x[1] -> DatapointsOf(stats[1])],
                             p2 \in [1..x[2] -> DatapointsOf(stats[2])] } :
            x \in { y \in (0..n) \X (0..n) : y[1] + y[2] <= n } }

\* getURL on its own: any configuration and any data points the fetches can
\* have left in the metrics.
InitURL ==
    /\ chartSamples \in 1..MaxSamples
    /\ statistic \in [Metrics -> Statistics]
    /\ datapoints \in datapointsUpTo(statistic, MaxPoints)
    /\ fetchIdle
    /\ urlIdle
    /\ encIdle

SpecURL == InitURL /\ [][NextURL]_vars


\* The values extendedEncode is handed on its own.
EncValues == { Rat(n, d) : n \in {-1, 0, 1, 5, 4095, 4097}, d \in {1, 3, 4096} }

\* extendedEncode is called.
encode ==
    /\ encPc = "ready"
    /\ encChartData' = extendedEncode(encArrVals, encMaxVal)
    /\ encPc' = "returned"
    /\ UNCHANGED << encArrVals, encMaxVal >>
    /\ UNCHANGED << configVars, datapoints, fetchVars, urlVars >>

\* extendedEncode on its own: any values, any maxVal from 0 up.
InitEnc ==
    /\ encArrVals \in SeqUpTo(EncValues, MaxLen)
    /\ encMaxVal \in 0..MaxMaxVal
    /\ encChartData = << >>
    /\ encPc = "ready"
    /\ chartSamples = 1
    /\ statistic = << "Maximum", "Average" >>
    /\ datapoints = [km \in Metrics |-> << >>]
    /\ fetchIdle
    /\ urlIdle

NextEnc == encode

SpecEnc == InitEnc /\ [][NextEnc]_vars

(* ------------------------------- claims -------------------------------- *)

\* The positions of the data points of metric km.
Points(km) == 1..Len(datapoints[km])

NoData == \A km \in Metrics : datapoints[km] = << >>

MinOf(S) == CHOOSE x \in S : \A y \in S : x <= y
MaxOf(S) == CHOOSE x \in S : \A y \in S : x >= y

globalMin == MinOf(UNION { { datapoints[km][ks].Timestamp : ks \in Points(km) } : km \in Metrics })
globalMax == MaxOf(UNION { { datapoints[km][ks].Timestamp : ks \in Points(km) } : km \in Metrics })

\* The positions of the points of metric km with start < Timestamp <= end.
InBucket(km, tl) ==
    { ks \in Points(km) : /\ tl.start < datapoints[km][ks].Timestamp
                          /\ datapoints[km][ks].Timestamp <= tl.end }

RECURSIVE SumAverage(_, _)
SumAverage(km, S) ==
    IF S = {} THEN 0
    ELSE LET ks == CHOOSE x \in S : TRUE
         IN  datapoints[km][ks].Average + SumAverage(km, S \ {ks})

\* The mean of the Average field over the selected points that have it, 0 if
\* none has.
RefMean(km, tl) ==
    LET S == { ks \in InBucket(km, tl) : "Average" \in DOMAIN datapoints[km][ks] }
    IN  IF S = {} THEN Rat(0, 1) ELSE Rat(SumAverage(km, S), Cardinality(S))

\* The maximum of the Maximum field over the selected points that have it, 0
\* if none has.
RefMax(km, tl) ==
    LET M == { datapoints[km][ks].Maximum :
                 ks \in { x \in InBucket(km, tl) : "Maximum" \in DOMAIN datapoints[km][x] } }
    IN  IF M = {} THEN Rat(0, 1) ELSE Rat(MaxOf(M), 1)

\* The same, never below 0.
RefMaxFloored(km, tl) ==
    LET M == { datapoints[km][ks].Maximum :
                 ks \in { x \in InBucket(km, tl) : "Maximum" \in DOMAIN datapoints[km][x] } }
    IN  Rat(MaxOf(M \cup {0}), 1)

\* Every bucket value of every metric, as a set.
Scalars == UNION { { datasets[km][ktl] : ktl \in 1..Len(timeLabels) } : km \in Metrics }

\* The largest of a non-empty set of rationals.
RatMaxOf(S) == CHOOSE x \in S : \A y \in S : ~RatLess(x, y)

\* The position of a character in EXTENDED_MAP, from 0.
Position(ch) == CHOOSE pos \in 0..63 : EXTENDED_MAP[pos + 1] = ch

\* C1: for chartSamples = N and a non-empty data set, getURL produces exactly
\* N bucket labels, and each metric's value sequence has N entries and its
\* encoded series two characters for each.
C1_ExactlyNBuckets ==
    (pc = "done" /\ ~NoData) =>
        /\ Len(url.chxl) = chartSamples
        /\ \A km \in Metrics :
              /\ Len(datasets[km]) = chartSamples
              /\ Len(url.chd[km]) = 2 * chartSamples

\* C2: every bucket value is the reference reduction over the points with
\* start < Timestamp <= end: for a Maximum metric the maximum of the Maximum
\* fields (0 if none), otherwise the mean of the Average fields (0 if none).
C2_ReferenceReduction ==
    pc = "done" =>
        \A km \in Metrics : \A ktl \in 1..Len(timeLabels) :
            RatEq(datasets[km][ktl],
                  IF statistic[km] = "Maximum" THEN RefMax(km, timeLabels[ktl])
                  ELSE RefMean(km, timeLabels[ktl]))

\* C2 as amended: the same, the maximum of a Maximum metric being taken over
\* 0 and the Maximum fields, so that it is never negative.
C2_FlooredReduction ==
    pc = "done" =>
        \A km \in Metrics : \A ktl \in 1..Len(timeLabels) :
            RatEq(datasets[km][ktl],
                  IF statistic[km] = "Maximum" THEN RefMaxFloored(km, timeLabels[ktl])
                  ELSE RefMean(km, timeLabels[ktl]))

\* A chart is built in which an Average metric has a bucket holding two
\* different Averages and a Maximum metric has a bucket holding no point.
C2_Witness ==
    /\ pc = "done"
    /\ \E km \in Metrics : \E ktl \in 1..Len(timeLabels) :
          /\ statistic[km] = "Maximum"
          /\ InBucket(km, timeLabels[ktl]) = {}
    /\ \E km \in Metrics : \E ktl \in 1..Len(timeLabels) :
          /\ statistic[km] = "Average"
          /\ \E ks, kt \in InBucket(km, timeLabels[ktl]) :
                datapoints[km][ks].Average # datapoints[km][kt].Average

\* The pair of characters the claim gives for value v under maxVal M > 0.
C3_Pair(v, M) ==
    LET sv == (4096 * v.n) \div (v.d * M)
    IN  IF sv > 4095 THEN << ".", "." >>
        ELSE IF sv < 0 THEN << "_", "_" >>
        ELSE << EXTENDED_MAP[(sv \div 64) + 1], EXTENDED_MAP[(sv % 64) + 1] >>

\* C3: for maxVal > 0 extendedEncode gives two characters for each value, in
\* order: ".." when floor(4096 v / maxVal) > 4095 (so for every v > maxVal),
\* "__" when it is negative (so for every negative v), and otherwise the
\* characters at its quotient and remainder by 64.
C3_TwoCharsPerValue ==
    (encPc = "returned" /\ encMaxVal > 0) =>
        /\ Len(encChartData) = 2 * Len(encArrVals)
        /\ \A k \in 1..Len(encArrVals) :
              LET v    == encArrVals[k]
                  pair == << encChartData[2 * k - 1], encChartData[2 * k] >>
              IN  /\ pair = C3_Pair(v, encMaxVal)
                  /\ v.n > encMaxVal * v.d => pair = << ".", "." >>
                  /\ v.n < 0 => pair = << "_", "_" >>

\* extendedEncode returned for a value above maxVal and a value in range
\* whose two characters differ.
C3_Witness ==
    /\ encPc = "returned"
    /\ encMaxVal > 0
    /\ \E k \in 1..Len(encArrVals) : encArrVals[k].n > encMaxVal * encArrVals[k].d
    /\ \E k \in 1..Len(encArrVals) :
          /\ encArrVals[k].n > 0
          /\ encArrVals[k].n < encMaxVal * encArrVals[k].d
          /\ encChartData[2 * k - 1] # encChartData[2 * k]

C5_RoundTrip ==
    (encPc = "returned" /\ encMaxVal > 0) =>
        \A k \in 1..Len(encArrVals) :
            LET v   == encArrVals[k]
                M   == encMaxVal
                dec == Position(encChartData[2 * k - 1]) * 64 + Position(encChartData[2 * k])
                err == 4096 * v.n - dec * M * v.d
            IN  (0 <= v.n /\ v.n <= M * v.d) =>
                    (err <= M * v.d /\ -err <= M * v.d)

\* extendedEncode returned for a value equal to maxVal and for a value
\* strictly between 0 and maxVal that is no multiple of maxVal / 4096.
C5_Witness ==
    /\ encPc = "returned"
    /\ encMaxVal > 0
    /\ \E k \in 1..Len(encArrVals) : encArrVals[k].n = encMaxVal * encArrVals[k].d
    /\ \E k \in 1..Len(encArrVals) :
          /\ encArrVals[k].n > 0
          /\ encArrVals[k].n < encMaxVal * encArrVals[k].d
          /\ (4096 * encArrVals[k].n) % (encArrVals[k].d * encMaxVal) # 0

RECURSIVE Appended(_, _)
\* How many data points the fulfilled fetches of metric km, up to call c,
\* were answered with.
Appended(km, c) ==
    IF c = 0 THEN 0
    ELSE (IF fetch[c][km].st = "fulfilled" THEN Len(fetch[c][km].data) ELSE 0)
         + Appended(km, c - 1)

\* C6: getChart starts one fetch for each metric; its promise is fulfilled
\* only when every one of them has fulfilled and appended its points; once a
\* fetch has rejected the promise is rejected, and it never fulfils after.
C6_AllOrNothing ==
    /\ [](\A c \in 1..MaxCharts :
            /\ chartPromise[c] # "none" => \A km \in Metrics : fetch[c][km].st # "none"
            /\ chartPromise[c] = "fulfilled" =>
                  \A km \in Metrics : fetch[c][km].st = "fulfilled"
            /\ (\E km \in Metrics : fetch[c][km].st = "rejected") =>
                  chartPromise[c] = "rejected")
    /\ [](\A km \in Metrics : Len(datapoints[km]) = Appended(km, MaxCharts))
    /\ [][\A c \in 1..MaxCharts :
            chartPromise[c] = "rejected" => chartPromise'[c] = "rejected"]_vars

\* One getChart fulfilled after both fetches appended points, and another
\* rejected although one of its fetches fulfilled.
C6_Witness ==
    \E c, e \in 1..MaxCharts :
        /\ chartPromise[c] = "fulfilled"
        /\ \A km \in Metrics : fetch[c][km].data # << >>
        /\ chartPromise[e] = "rejected"
        /\ \E km \in Metrics : fetch[e][km].st = "fulfilled"

\* C7: with no data point at all, or with a y-axis ceiling of zero, getURL
\* (and so save and get) ends with a "no data to render" error of its own:
\* no other error, and no URL whose payload was divided by a zero maxVal.
C7_DegenerateGuarded ==
    /\ (pc \in {"done", "threw"} /\ NoData) => url.kind = "NoDataError"
    /\ (pc = "done" /\ topEdge = 0) => url.kind = "NoDataError"

\* C8: once a fetch of a metric has fulfilled, the metric's data point list
\* never changes again, whatever is called after; and a fetch of one metric
\* never changes the list of another.
C8_PopulatedOnce ==
    [][/\ \A km \in Metrics :
            (\E c \in 1..MaxCharts : fetch[c][km].st = "fulfilled") =>
                datapoints'[km] = datapoints[km]
       /\ \A km \in Metrics :
            (datapoints'[km] # datapoints[km]) =>
                \A other \in Metrics \ {km} : datapoints'[other] = datapoints[other]]_vars

\* C9: the buckets partition the observed range: the first starts at
\* globalMin, each starts where the one before ends, the last ends at
\* globalMax, all have the same duration; so every data point with
\* globalMin < Timestamp <= globalMax is selected by exactly one bucket, and
\* one at globalMin by none.
C9_BucketsPartition ==
    (pc = "done" /\ ~NoData) =>
        /\ timeLabels # << >>
        /\ timeLabels[1].start = globalMin
        /\ timeLabels[Len(timeLabels)].end = globalMax
        /\ \A k \in 2..Len(timeLabels) : timeLabels[k].start = timeLabels[k - 1].end
        /\ \A k \in 1..Len(timeLabels) :
              timeLabels[k].end - timeLabels[k].start = timeLabels[1].end - timeLabels[1].start
        /\ \A km \in Metrics : \A ks \in Points(km) :
              Cardinality({ k \in 1..Len(timeLabels) : ks \in InBucket(km, timeLabels[k]) })
                  = IF datapoints[km][ks].Timestamp > globalMin THEN 1 ELSE 0

\* C10: for a data set with at least one point the bucket walk ends and
\* getURL returns a URL.  The walk is a deterministic loop over i, endTime
\* and diff, left only when i > endTime: it ends exactly when every iteration
\* moves i forward, and getURL returns exactly when nothing in it throws.
C10_WalkTerminates ==
    [][~NoData => /\ (pc = "walk" /\ pc' = "walk") => Num(i') > Num(i)
                  /\ pc' # "threw"]_vars

====
